---- MODULE Spec2Model ----
(***************************************************************************)
(* Model of trappy's cpu_power.py and devfreq_power.py: the cpumask codec  *)
(* (sanitize_mask, num_cpus_in_mask, cpus_to_mask, mask_to_cpus), the      *)
(* label pivot (pivot_with_labels) and the load / frequency queries of     *)
(* CpuInPower, CpuOutPower, DevfreqInPower and DevfreqOutPower.            *)
(*                                                                         *)
(* Text (a cpumask, a column name) is a sequence of one-character strings, *)
(* so that str.replace, str.startswith, int(text, 16) and bin(value) are   *)
(* computed character by character.  A number held by a pandas object is   *)
(* an exact rational [num, den]; den = 0 encodes the IEEE values NaN       *)
(* (num = 0) and +/-inf (num = +/-1).                                      *)
(***************************************************************************)
EXTENDS Integers, Sequences, FiniteSets, TLC

VARIABLES
    mask,           \* mask codec: the textual cpumask handed to the codec
    mask_int,       \* mask codec: outcome of sanitize_mask(mask)
    mask_cnt,       \* mask codec: outcome of num_cpus_in_mask(mask)
    cpus,           \* cpu list codec: the iterable handed to cpus_to_mask
    cpu_mask,       \* cpu list codec: outcome of cpus_to_mask(cpus)
    cpu_list,       \* cpu list codec: outcome of mask_to_cpus(cpu_mask)
    self,           \* queries: the class of the event object
    data_frame,     \* queries: self.data_frame, the caller's event table
    mapping_label,  \* queries: the label map handed to the queries
    last_call,      \* queries: the query called last
    result          \* queries: what that call returned or raised

vars == <<mask, mask_int, mask_cnt, cpus, cpu_mask, cpu_list,
          self, data_frame, mapping_label, last_call, result>>

maskVars == <<mask, mask_int, mask_cnt>>
cpuVars == <<cpus, cpu_mask, cpu_list>>
queryVars == <<self, data_frame, mapping_label, last_call, result>>

----------------------------------------------------------------------------
(* Bounds of the model *)

\* longest textual mask enumerated
MaxLen == 3
\* largest cpu index handed to cpus_to_mask
MaxCpu == 3
\* longest cpu list handed to cpus_to_mask
MaxCpuListLen == 3
\* most rows of a CpuOutPower or devfreq event table
MaxRows == 3
\* most rows of a CpuInPower event table
MaxLoadRows == 2

----------------------------------------------------------------------------
(* Generic helpers *)

\* the value a call has not produced yet
Unset == [err |-> "unset"]

Returned(v) == [err |-> "none", val |-> v]

Raised(e) == [err |-> e]

Range(s) == {s[i] : i \in DOMAIN s}

\* all sequences over S of length at most n
SeqsUpTo(S, n) == UNION {[1..k -> S] : k \in 0..n}

\* the orders in which the elements of a set can be visited
Orders(S) == {o \in [1..Cardinality(S) -> S] : Range(o) = S}

RECURSIVE Pow2(_)
Pow2(n) == IF n = 0 THEN 1 ELSE 2 * Pow2(n - 1)

Reverse(s) == [i \in 1..Len(s) |-> s[Len(s) + 1 - i]]

----------------------------------------------------------------------------
(* Python built-ins used by the mask codec *)

HexDigits == {"0","1","2","3","4","5","6","7","8","9",
              "a","b","c","d","e","f","A","B","C","D","E","F"}

HexVal(c) ==
    CASE c = "0" -> 0 [] c = "1" -> 1 [] c = "2" -> 2 [] c = "3" -> 3
      [] c = "4" -> 4 [] c = "5" -> 5 [] c = "6" -> 6 [] c = "7" -> 7
      [] c = "8" -> 8 [] c = "9" -> 9
      [] c \in {"a","A"} -> 10 [] c \in {"b","B"} -> 11
      [] c \in {"c","C"} -> 12 [] c \in {"d","D"} -> 13
      [] c \in {"e","E"} -> 14 [] c \in {"f","F"} -> 15

\* str.replace(old, ""): the text without the character old
StrRemove(text, old) == SelectSeq(text, LAMBDA c : c # old)

RECURSIVE DigitsValue(_)
DigitsValue(ds) ==
    IF ds = <<>> THEN 0
    ELSE 16 * DigitsValue(SubSeq(ds, 1, Len(ds) - 1)) + HexVal(ds[Len(ds)])

\* int(text, 16): an optional sign, an optional 0x prefix, then one or more
\* hexadecimal digits; anything else raises ValueError
IntBase16(text) ==
    LET signed == Len(text) >= 1 /\ text[1] \in {"-", "+"}
        body   == IF signed THEN Tail(text) ELSE text
        prefix == Len(body) >= 2 /\ body[1] = "0" /\ body[2] \in {"x", "X"}
        digits == IF prefix THEN SubSeq(body, 3, Len(body)) ELSE body
    IN  IF digits = <<>> \/ \E i \in DOMAIN digits : digits[i] \notin HexDigits
        THEN Raised("ValueError")
        ELSE Returned(IF signed /\ text[1] = "-"
                      THEN 0 - DigitsValue(digits) ELSE DigitsValue(digits))

RECURSIVE BinDigits(_)
BinDigits(n) ==
    IF n < 2 THEN <<IF n = 1 THEN "1" ELSE "0">>
    ELSE Append(BinDigits(n \div 2), IF n % 2 = 1 THEN "1" ELSE "0")

\* bin(value): "0b" and the binary digits of |value|, after a "-" if negative
Bin(value) ==
    IF value < 0 THEN <<"-", "0", "b">> \o BinDigits(0 - value)
    ELSE <<"0", "b">> \o BinDigits(value)

\* str.count(c)
StrCount(text, c) == Len(SelectSeq(text, LAMBDA x : x = c))

RECURSIVE BitOr(_, _)
BitOr(a, b) ==
    IF a = 0 THEN b
    ELSE IF b = 0 THEN a
    ELSE (IF a % 2 = 1 \/ b % 2 = 1 THEN 1 ELSE 0)
         + 2 * BitOr(a \div 2, b \div 2)

----------------------------------------------------------------------------
(* The mask codec *)

\* num_cpus_in_mask without the removal of the commas
num_cpus_in_mask_raw(m) ==
    LET value == IntBase16(m)
    IN  IF value.err # "none" THEN value
        ELSE Returned(StrCount(Bin(value.val), "1"))

num_cpus_in_mask(m) ==
    LET value == IntBase16(StrRemove(m, ","))
    IN  IF value.err # "none" THEN value
        ELSE Returned(StrCount(Bin(value.val), "1"))

sanitize_mask(m) == IntBase16(StrRemove(m, ","))

RECURSIVE cpus_to_mask(_)
cpus_to_mask(cs) ==
    IF cs = <<>> THEN 0
    ELSE BitOr(cpus_to_mask(SubSeq(cs, 1, Len(cs) - 1)), Pow2(cs[Len(cs)]))

\* mask_to_cpus without bits.reverse(): positions counted from the most
\* significant bit
mask_to_cpus_msb_first(m) ==
    LET whole == Bin(m)
        bits  == SubSeq(whole, 3, Len(whole))
        RECURSIVE Scan(_)
        Scan(n) == IF n = 0 THEN <<>>
                   ELSE IF bits[n] = "1" THEN Append(Scan(n - 1), n - 1)
                   ELSE Scan(n - 1)
    IN  Scan(Len(bits))

mask_to_cpus(m) ==
    LET whole == Bin(m)
        bits  == Reverse(SubSeq(whole, 3, Len(whole)))
        RECURSIVE Scan(_)
        Scan(n) == IF n = 0 THEN <<>>
                   ELSE IF bits[n] = "1" THEN Append(Scan(n - 1), n - 1)
                   ELSE Scan(n - 1)
    IN  Scan(Len(bits))

----------------------------------------------------------------------------
(* Numbers held by pandas objects: exact rationals plus NaN and +/-inf *)

Abs(n) == IF n < 0 THEN 0 - n ELSE n

Sign(n) == IF n < 0 THEN 0 - 1 ELSE IF n = 0 THEN 0 ELSE 1

RECURSIVE Gcd(_, _)
Gcd(a, b) == IF b = 0 THEN a ELSE Gcd(b, a % b)

\* the number n / d in lowest terms; n / 0 is NaN or a signed infinity
Norm(n, d) ==
    IF d = 0 THEN [num |-> Sign(n), den |-> 0]
    ELSE LET g == Gcd(Abs(n), Abs(d))
         IN  [num |-> Sign(n) * Sign(d) * (Abs(n) \div g), den |-> Abs(d) \div g]

Val(n) == [num |-> n, den |-> 1]

NaN == [num |-> 0, den |-> 0]

RatAdd(a, b) ==
    IF a.den = 0 /\ b.den = 0 THEN (IF a = b THEN a ELSE NaN)
    ELSE Norm(a.num * b.den + b.num * a.den, a.den * b.den)

RatMul(a, b) == Norm(a.num * b.num, a.den * b.den)

RatDiv(a, b) == Norm(a.num * b.den, a.den * b.num)

RatLess(a, b) == a.num * b.den < b.num * a.den

----------------------------------------------------------------------------
(* Event tables.  A table maps each column name to the sequence of its     *)
(* cells; the row index is the position 1..n (unique and ascending).       *)

CPUS == <<"c", "p", "u", "s">>

FREQ == <<"f", "r", "e", "q">>

LOAD == <<"l", "o", "a", "d">>

LOAD0 == <<"l", "o", "a", "d", "0">>

LOAD1 == <<"l", "o", "a", "d", "1">>

TYPE == <<"t", "y", "p", "e">>

\* the order in which a table lists the columns it has
AllColumns == <<CPUS, TYPE, FREQ, LOAD, LOAD0, LOAD1>>

Columns(dfr) == SelectSeq(AllColumns, LAMBDA c : c \in DOMAIN dfr)

NRows(dfr) == Len(dfr[CHOOSE c \in DOMAIN dfr : TRUE])

\* str.startswith(prefix)
StartsWith(s, prefix) ==
    Len(s) >= Len(prefix) /\ SubSeq(s, 1, Len(prefix)) = prefix

\* f with key k bound to v (dict item assignment)
Put(f, k, v) == [x \in DOMAIN f \cup {k} |-> IF x = k THEN v ELSE f[x]]

EmptyDict == <<>>

RECURSIVE SortedSeq(_)
SortedSeq(S) ==
    IF S = {} THEN <<>>
    ELSE LET m == CHOOSE x \in S : \A y \in S : x <= y
         IN  <<m>> \o SortedSeq(S \ {m})

----------------------------------------------------------------------------
(* pivot_with_labels *)

\* fillna(method="backfill") in place of "pad": a missing cell takes the
\* first valid cell below it
RECURSIVE Backfill(_)
Backfill(column) ==
    IF column = <<>> THEN <<>>
    ELSE LET below == Backfill(Tail(column))
             cell  == Head(column)
         IN  <<IF cell = NaN /\ below # <<>> THEN below[1] ELSE cell>> \o below

\* DataFrame.fillna(method="pad") on one column: a missing cell takes the
\* last valid cell above it
RECURSIVE Pad(_)
Pad(column) ==
    IF column = <<>> THEN <<>>
    ELSE LET above == Pad(SubSeq(column, 1, Len(column) - 1))
             cell  == column[Len(column)]
         IN  Append(above, IF cell = NaN /\ above # <<>>
                           THEN above[Len(above)] ELSE cell)

\* pd.DataFrame(ret_series): the union of the series' indexes, sorted, one
\* column per key, NaN where a series has no entry
DataFrameOfSeries(ret_series) ==
    LET index == SortedSeq(UNION {DOMAIN ret_series[l] : l \in DOMAIN ret_series})
    IN  [index |-> index,
         col   |-> [l \in DOMAIN ret_series |->
                      [p \in 1..Len(index) |->
                          IF index[p] \in DOMAIN ret_series[l]
                          THEN ret_series[l][index[p]] ELSE NaN]]]

FillnaPad(frame) ==
    [frame EXCEPT !.col = [l \in DOMAIN frame.col |-> Pad(frame.col[l])]]

\* dfr[dfr[new_col_name] == col][data_col_name]: the rows of one group,
\* under their original index
GroupSeries(dfr, data_col_name, new_col_name, col) ==
    [i \in {j \in 1..NRows(dfr) : dfr[new_col_name][j] = col} |->
        dfr[data_col_name][i]]

\* mapping_label.get(col, "unknown") in place of mapping_label[col]
LookupLabelDefault(ml, col) ==
    [err |-> "none", label |-> IF col \in DOMAIN ml THEN ml[col] ELSE "unknown"]

\* label = mapping_label[col], or the KeyError raised in its place, which
\* carries the key and the keys of the label map
LookupLabel(ml, col) ==
    IF col \in DOMAIN ml THEN [err |-> "none", label |-> ml[col]]
    ELSE [err |-> "KeyError", key |-> col, available |-> DOMAIN ml]

\* order is the order in which Python visits col_set
pivot_with_labels(dfr, data_col_name, new_col_name, ml, order) ==
    LET RECURSIVE Loop(_)
        Loop(k) ==
            IF k = 0 THEN [err |-> "none", ret_series |-> EmptyDict]
            ELSE LET before == Loop(k - 1)
                     col    == order[k]
                     found  == LookupLabel(ml, col)
                 IN  IF before.err # "none" THEN before
                     ELSE IF found.err # "none" THEN found
                     ELSE [err |-> "none",
                           ret_series |->
                               Put(before.ret_series, found.label,
                                   GroupSeries(dfr, data_col_name,
                                               new_col_name, col))]
        done == Loop(Len(order))
    IN  IF done.err # "none" THEN done
        ELSE Returned(FillnaPad(DataFrameOfSeries(done.ret_series)))

\* frame / divisor
FrameDiv(frame, divisor) ==
    [frame EXCEPT !.col =
        [l \in DOMAIN frame.col |->
            [p \in DOMAIN frame.col[l] |-> RatDiv(frame.col[l][p], Val(divisor))]]]

----------------------------------------------------------------------------
(* Series objects.  A Series taken out of a table shares the table's       *)
(* buffer: base names the column it shares, or is empty for a Series that  *)
(* owns its buffer.  An in-place operation writes through to the table.    *)

NoBase == <<>>

\* dfr[col] without .copy(): the Series shares the buffer of the column
SeriesShare(dfr, col) == [vals |-> dfr[col], base |-> col]

\* dfr[col].copy()
SeriesCopy(dfr, col) == [vals |-> dfr[col], base |-> NoBase]

\* an in-place write of vals into the Series obj: the Series and the table
\* after it
Store(obj, dfr, vals) ==
    [series |-> [obj EXCEPT !.vals = vals],
     dfr    |-> IF obj.base = NoBase THEN dfr
                ELSE [dfr EXCEPT ![obj.base] = vals]]

\* max() over a non-empty set of finite rationals
RECURSIVE RatMax(_)
RatMax(S) ==
    LET x == CHOOSE y \in S : TRUE
    IN  IF S = {x} THEN x
        ELSE LET m == RatMax(S \ {x}) IN IF RatLess(m, x) THEN x ELSE m

----------------------------------------------------------------------------
(* CpuInPower *)

LoadPrefix == <<"l", "o", "a", "d">>

\* load_cols in place of load_cols[1:]: the first column is added twice
SliceFrom0(load_cols) == load_cols

\* load_cols[1:]
SliceFrom1(load_cols) == SubSeq(load_cols, 2, Len(load_cols))

\* CpuInPower._get_load_series: [err, series, dfr], dfr being the table
\* after the call
get_load_series(dfr) ==
    LET load_cols == SelectSeq(Columns(dfr), LAMBDA s : StartsWith(s, LoadPrefix))
        rest      == SliceFrom1(load_cols)
        RECURSIVE Sum(_)
        Sum(k) ==
            IF k = 0 THEN [series |-> SeriesCopy(dfr, load_cols[1]), dfr |-> dfr]
            ELSE LET before == Sum(k - 1)
                     s      == before.series
                     d      == before.dfr
                 IN  Store(s, d, [i \in DOMAIN s.vals |->
                                     RatAdd(s.vals[i], d[rest[k]][i])])
    IN  IF load_cols = <<>> THEN [err |-> "IndexError", dfr |-> dfr]
        ELSE LET done == Sum(Len(rest))
             IN  [err |-> "none", series |-> done.series, dfr |-> done.dfr]

\* pd.DataFrame({"cpus": dfr["cpus"], "load": load_series})
LoadFrame(dfr, load_series) ==
    [c \in {CPUS, LOAD} |-> IF c = CPUS THEN dfr[CPUS] ELSE load_series.vals]

\* CpuInPower.get_load_data: [out, dfr]
get_load_data(dfr, ml, order) ==
    LET got == get_load_series(dfr)
    IN  IF got.err # "none" THEN [out |-> Raised(got.err), dfr |-> got.dfr]
        ELSE [out |-> pivot_with_labels(LoadFrame(got.dfr, got.series),
                                        LOAD, CPUS, ml, order),
              dfr |-> got.dfr]

\* one turn of the loop of get_normalized_load_data over mapping_label
NormalizeGroup(env, cpumask) ==
    LET d        == env.dfr
        s        == env.series
        num_cpus == num_cpus_in_mask(cpumask)
        idx      == {i \in 1..NRows(d) : d[CPUS][i] = cpumask}
    IN  IF num_cpus.err # "none" THEN [err |-> num_cpus.err, dfr |-> d]
        ELSE IF idx = {} THEN [err |-> "ValueError", dfr |-> d]
        ELSE LET max_freq == RatMax({d[FREQ][i] : i \in idx})
                 divisor  == RatMul(max_freq, Val(num_cpus.val))
                 stored   == Store(s, d,
                                 [i \in DOMAIN s.vals |->
                                     IF i \in idx THEN RatDiv(s.vals[i], divisor)
                                     ELSE s.vals[i]])
             IN  [err |-> "none", series |-> stored.series, dfr |-> stored.dfr]

\* CpuInPower.get_normalized_load_data: [out, dfr]; keys is the order in
\* which Python visits mapping_label, order the one of the pivot's col_set
get_normalized_load_data(dfr, ml, keys, order) ==
    LET got == get_load_series(dfr)
        RECURSIVE Loop(_)
        Loop(k) ==
            IF k = 0
            THEN LET stored == Store(got.series, got.dfr,
                                   [i \in DOMAIN got.series.vals |->
                                       RatMul(got.series.vals[i], got.dfr[FREQ][i])])
                 IN  [err |-> "none", series |-> stored.series, dfr |-> stored.dfr]
            ELSE LET before == Loop(k - 1)
                 IN  IF before.err # "none" THEN before
                     ELSE NormalizeGroup(before, keys[k])
    IN  IF got.err # "none" THEN [out |-> Raised(got.err), dfr |-> got.dfr]
        ELSE LET done == Loop(Len(keys))
             IN  IF done.err # "none"
                 THEN [out |-> Raised(done.err), dfr |-> done.dfr]
                 ELSE [out |-> pivot_with_labels(LoadFrame(done.dfr, done.series),
                                                 LOAD, CPUS, ml, order),
                       dfr |-> done.dfr]

\* CpuInPower.get_all_freqs with the divisor of the devfreq classes
CpuInPower_get_all_freqs_hz(dfr, ml, order) ==
    LET pivot == pivot_with_labels(dfr, FREQ, CPUS, ml, order)
    IN  IF pivot.err # "none" THEN pivot
        ELSE Returned(FrameDiv(pivot.val, 1000000))

\* CpuInPower.get_all_freqs
CpuInPower_get_all_freqs(dfr, ml, order) ==
    LET pivot == pivot_with_labels(dfr, FREQ, CPUS, ml, order)
    IN  IF pivot.err # "none" THEN pivot
        ELSE Returned(FrameDiv(pivot.val, 1000))

----------------------------------------------------------------------------
(* CpuOutPower *)

\* CpuOutPower.get_all_freqs
CpuOutPower_get_all_freqs(dfr, ml, order) ==
    LET pivot == pivot_with_labels(dfr, FREQ, CPUS, ml, order)
    IN  IF pivot.err # "none" THEN pivot
        ELSE Returned(FrameDiv(pivot.val, 1000))

----------------------------------------------------------------------------
(* DevfreqInPower, DevfreqOutPower *)

\* series / divisor: a new Series
SeriesDiv(vals, divisor) ==
    [i \in DOMAIN vals |-> RatDiv(vals[i], Val(divisor))]

\* pd.DataFrame(series): one column, named after the series
DataFrameOfColumn(name, vals) ==
    [index |-> [p \in 1..Len(vals) |-> p], col |-> [l \in {name} |-> vals]]

\* DevfreqInPower.get_all_freqs
DevfreqInPower_get_all_freqs(dfr) ==
    Returned(DataFrameOfColumn(FREQ, SeriesDiv(dfr[FREQ], 1000000)))

\* DevfreqOutPower.get_all_freqs
DevfreqOutPower_get_all_freqs(dfr) ==
    Returned(DataFrameOfColumn(FREQ, SeriesDiv(dfr[FREQ], 1000000)))

----------------------------------------------------------------------------
(* Inputs *)

\* the characters of the textual masks enumerated: hexadecimal digits, the
\* comma, a sign, the prefix letter and a letter that is no digit
Alphabet == {"0", "1", "f", ",", "-", "x", "g"}

Masks == SeqsUpTo(Alphabet, MaxLen)

CpuLists == SeqsUpTo(0..MaxCpu, MaxCpuListLen)

\* the cpumasks of the event tables: 4 cpus and 2 cpus
GroupKeys == {<<"f", "0">>, <<"3">>}

\* a cpumask a label map may name though no table has a row of it
ExtraKey == <<"c">>

Labels == {"A15", "A7"}

\* every label map over the keys, whether or not it covers the keys of the
\* table and whether or not it is injective
LabelMaps == UNION {[D -> Labels] : D \in SUBSET (GroupKeys \cup {ExtraKey})}

\* one label per cluster
ClusterLabel(key) ==
    IF key = <<"f", "0">> THEN "A15" ELSE IF key = <<"3">> THEN "A7" ELSE "A53"

\* the label maps that name some of the clusters, each by its own label
ClusterMaps ==
    {[key \in D |-> ClusterLabel(key)] : D \in SUBSET (GroupKeys \cup {ExtraKey})}

Cells(S) == {Val(v) : v \in S}

CpuFreqs == Cells({1000, 2000})

DevFreqs == Cells({1000000, 1500000})

\* the cells of column load0 and those of column load1
Loads == Cells({1, 2})

Loads1 == Cells({4})

Device == <<"g", "p", "u">>

\* the load* columns of a table of n rows: none, load0, or load0 and load1
LoadParts(n) ==
    {EmptyDict}
    \cup {(LOAD0 :> l0) : l0 \in [1..n -> Loads]}
    \cup {(LOAD0 :> l0) @@ (LOAD1 :> l1) : l0 \in [1..n -> Loads],
                                          l1 \in [1..n -> Loads1]}

CpuOutFrames ==
    UNION {{(CPUS :> c) @@ (FREQ :> f) :
               c \in [1..n -> GroupKeys], f \in [1..n -> CpuFreqs]} :
           n \in 0..MaxRows}

CpuInFrames ==
    UNION {{(CPUS :> c) @@ (FREQ :> f) @@ l :
               c \in [1..n -> GroupKeys], f \in [1..n -> CpuFreqs],
               l \in LoadParts(n)} :
           n \in 0..MaxLoadRows}

DevfreqFrames ==
    UNION {{(TYPE :> [i \in 1..n |-> Device]) @@ (FREQ :> f) :
               f \in [1..n -> DevFreqs]} :
           n \in 0..MaxRows}

CpuClasses == {"CpuInPower", "CpuOutPower"}

DevfreqClasses == {"DevfreqInPower", "DevfreqOutPower"}

----------------------------------------------------------------------------
(* Initial states *)

NoMask ==
    /\ mask = <<>>
    /\ mask_int = Unset
    /\ mask_cnt = Unset

NoCpus ==
    /\ cpus = <<>>
    /\ cpu_mask = Unset
    /\ cpu_list = Unset

NoQuery ==
    /\ self = "none"
    /\ data_frame = EmptyDict
    /\ mapping_label = EmptyDict
    /\ last_call = "none"
    /\ result = Unset

InitMask ==
    /\ mask \in Masks
    /\ mask_int = Unset
    /\ mask_cnt = Unset
    /\ NoCpus
    /\ NoQuery

InitCpus ==
    /\ cpus \in CpuLists
    /\ cpu_mask = Unset
    /\ cpu_list = Unset
    /\ NoMask
    /\ NoQuery

Init ==
    /\ NoMask
    /\ NoCpus
    /\ \/ /\ self = "CpuInPower"
          /\ data_frame \in CpuInFrames
          /\ mapping_label \in ClusterMaps
       \/ /\ self = "CpuOutPower"
          /\ data_frame \in CpuOutFrames
          /\ mapping_label \in LabelMaps
       \/ /\ self \in DevfreqClasses
          /\ data_frame \in DevfreqFrames
          /\ mapping_label = EmptyDict
    /\ last_call = "none"
    /\ result = Unset

----------------------------------------------------------------------------
(* Calls of the mask codec *)

SanitizeMask ==
    /\ mask_int' = sanitize_mask(mask)
    /\ UNCHANGED <<mask, mask_cnt, cpuVars, queryVars>>

NumCpusInMask ==
    /\ mask_cnt' = num_cpus_in_mask(mask)
    /\ UNCHANGED <<mask, mask_int, cpuVars, queryVars>>

InsertAt(text, p, c) == SubSeq(text, 1, p) \o <<c>> \o SubSeq(text, p + 1, Len(text))

RemoveAt(text, p) == SubSeq(text, 1, p - 1) \o SubSeq(text, p + 1, Len(text))

\* the caller writes the same mask with one more comma and calls both
\* functions on it
CallWithCommaInserted ==
    /\ Len(mask) < MaxLen
    /\ \E p \in 0..Len(mask) : mask' = InsertAt(mask, p, ",")
    /\ mask_int' = sanitize_mask(mask')
    /\ mask_cnt' = num_cpus_in_mask(mask')
    /\ UNCHANGED <<cpuVars, queryVars>>

\* the caller writes the same mask with one comma less and calls both
\* functions on it
CallWithCommaRemoved ==
    /\ \E p \in DOMAIN mask : mask[p] = "," /\ mask' = RemoveAt(mask, p)
    /\ mask_int' = sanitize_mask(mask')
    /\ mask_cnt' = num_cpus_in_mask(mask')
    /\ UNCHANGED <<cpuVars, queryVars>>

NextMask ==
    \/ SanitizeMask
    \/ NumCpusInMask
    \/ CallWithCommaInserted
    \/ CallWithCommaRemoved

SpecMask == InitMask /\ [][NextMask]_vars

----------------------------------------------------------------------------
(* Calls of the cpu list codec *)

CpusToMask ==
    /\ cpu_mask' = Returned(cpus_to_mask(cpus))
    /\ UNCHANGED <<cpus, cpu_list, maskVars, queryVars>>

MaskToCpus ==
    /\ cpu_mask.err = "none"
    /\ cpu_list' = Returned(mask_to_cpus(cpu_mask.val))
    /\ UNCHANGED <<cpus, cpu_mask, maskVars, queryVars>>

NextCpus ==
    \/ CpusToMask
    \/ MaskToCpus

SpecCpus == InitCpus /\ [][NextCpus]_vars

----------------------------------------------------------------------------
(* Queries *)

\* col_set = set(dfr["cpus"])
ColSet(dfr) == Range(dfr[CPUS])

PivotWithLabels ==
    /\ self \in CpuClasses
    /\ \E order \in Orders(ColSet(data_frame)) :
           result' = pivot_with_labels(data_frame, FREQ, CPUS, mapping_label, order)
    /\ last_call' = "pivot_with_labels"
    /\ UNCHANGED <<self, data_frame, mapping_label, maskVars, cpuVars>>

GetLoadSeries ==
    /\ self = "CpuInPower"
    /\ LET got == get_load_series(data_frame)
       IN  /\ result' = IF got.err # "none" THEN Raised(got.err)
                        ELSE Returned(got.series.vals)
           /\ data_frame' = got.dfr
    /\ last_call' = "_get_load_series"
    /\ UNCHANGED <<self, mapping_label, maskVars, cpuVars>>

GetLoadData ==
    /\ self = "CpuInPower"
    /\ \E order \in Orders(ColSet(data_frame)) :
           LET got == get_load_data(data_frame, mapping_label, order)
           IN  /\ result' = got.out
               /\ data_frame' = got.dfr
    /\ last_call' = "get_load_data"
    /\ UNCHANGED <<self, mapping_label, maskVars, cpuVars>>

GetNormalizedLoadData ==
    /\ self = "CpuInPower"
    /\ \E keys \in Orders(DOMAIN mapping_label) :
       \E order \in Orders(ColSet(data_frame)) :
           LET got == get_normalized_load_data(data_frame, mapping_label,
                                               keys, order)
           IN  /\ result' = got.out
               /\ data_frame' = got.dfr
    /\ last_call' = "get_normalized_load_data"
    /\ UNCHANGED <<self, mapping_label, maskVars, cpuVars>>

CpuInGetAllFreqs ==
    /\ self = "CpuInPower"
    /\ \E order \in Orders(ColSet(data_frame)) :
           result' = CpuInPower_get_all_freqs(data_frame, mapping_label, order)
    /\ last_call' = "get_all_freqs"
    /\ UNCHANGED <<self, data_frame, mapping_label, maskVars, cpuVars>>

CpuOutGetAllFreqs ==
    /\ self = "CpuOutPower"
    /\ \E order \in Orders(ColSet(data_frame)) :
           result' = CpuOutPower_get_all_freqs(data_frame, mapping_label, order)
    /\ last_call' = "get_all_freqs"
    /\ UNCHANGED <<self, data_frame, mapping_label, maskVars, cpuVars>>

DevfreqInGetAllFreqs ==
    /\ self = "DevfreqInPower"
    /\ result' = DevfreqInPower_get_all_freqs(data_frame)
    /\ last_call' = "get_all_freqs"
    /\ UNCHANGED <<self, data_frame, mapping_label, maskVars, cpuVars>>

DevfreqOutGetAllFreqs ==
    /\ self = "DevfreqOutPower"
    /\ result' = DevfreqOutPower_get_all_freqs(data_frame)
    /\ last_call' = "get_all_freqs"
    /\ UNCHANGED <<self, data_frame, mapping_label, maskVars, cpuVars>>

Next ==
    \/ PivotWithLabels
    \/ GetLoadSeries
    \/ GetLoadData
    \/ GetNormalizedLoadData
    \/ CpuInGetAllFreqs
    \/ CpuOutGetAllFreqs
    \/ DevfreqInGetAllFreqs
    \/ DevfreqOutGetAllFreqs

Spec == Init /\ [][Next]_vars

----------------------------------------------------------------------------
(* What the properties are stated with *)

\* number of set bits of a non-negative integer
RECURSIVE PopCount(_)
PopCount(n) == IF n = 0 THEN 0 ELSE (n % 2) + PopCount(n \div 2)

BitSet(n, i) == (n \div Pow2(i)) % 2 = 1

\* a text of hexadecimal digits and commas with at least one digit
IsHexMask(text) ==
    /\ \A i \in DOMAIN text : text[i] \in HexDigits \cup {","}
    /\ \E i \in DOMAIN text : text[i] \in HexDigits

\* the group keys that have a row in the table
PresentKeys == {data_frame[CPUS][i] : i \in DOMAIN data_frame[CPUS]}

Covered == PresentKeys \subseteq DOMAIN mapping_label

InjectiveOnPresent ==
    \A a, b \in PresentKeys \cap DOMAIN mapping_label :
        mapping_label[a] = mapping_label[b] => a = b

\* the cell of row i in the column of group key: the value of the latest
\* row at or before i that belongs to the group, missing when there is none
ExpectedCell(groups, values, key, i) ==
    LET rows == {j \in 1..i : groups[j] = key}
    IN  IF rows = {} THEN NaN
        ELSE values[CHOOSE j \in rows : \A k \in rows : k <= j]

\* the pivot of values by groups under an injective, covering label map
ExpectedPivot(groups, values) ==
    [index |-> [i \in 1..Len(groups) |-> i],
     col   |-> [l \in {mapping_label[k] : k \in Range(groups)} |->
                  LET key == CHOOSE k \in Range(groups) : mapping_label[k] = l
                  IN  [i \in 1..Len(groups) |->
                          ExpectedCell(groups, values, key, i)]]]

\* cell is value / divisor, a missing value staying missing
IsScaled(cell, value, divisor) ==
    IF value = NaN THEN cell = NaN
    ELSE cell.den > 0 /\ cell.num * value.den * divisor = value.num * cell.den

\* the number in column c at row i, 0 when the table has no such column
Number(c, i) == IF c \in DOMAIN data_frame THEN data_frame[c][i].num ELSE 0

----------------------------------------------------------------------------
(* Properties *)

\* C1: with a label map that gives every group key of the table its own
\* label, pivot_with_labels returns one row per input row, in order, and the
\* cell of row i under label L is the value of the latest row at or before
\* i whose group key maps to L, or NaN when there is no such row.
C1_PivotForwardFills ==
    (last_call = "pivot_with_labels" /\ Covered /\ InjectiveOnPresent)
        => result = Returned(ExpectedPivot(data_frame[CPUS], data_frame[FREQ]))

\* C1 witness: a pivot of three rows with a leading NaN and a cell filled
\* from the row above, which belongs to another group than the row itself
C1_Witness ==
    /\ last_call = "pivot_with_labels"
    /\ Covered
    /\ InjectiveOnPresent
    /\ result.err = "none"
    /\ Len(data_frame[CPUS]) >= 3
    /\ data_frame[CPUS][3] # data_frame[CPUS][2]
    /\ \E l \in DOMAIN result.val.col :
           /\ result.val.col[l][1] = NaN
           /\ result.val.col[l][2] # NaN
           /\ result.val.col[l][3] = result.val.col[l][2]
           /\ mapping_label[data_frame[CPUS][3]] # l

\* C2: when a group key of the table is absent from the label map,
\* pivot_with_labels raises a KeyError that carries a missing key and the
\* keys of the label map, and returns no table, whatever the visiting order.
C2_UnknownKeyRaises ==
    (last_call = "pivot_with_labels" /\ ~Covered)
        => /\ result.err = "KeyError"
           /\ result.key \in PresentKeys \ DOMAIN mapping_label
           /\ result.available = DOMAIN mapping_label
           /\ "val" \notin DOMAIN result

\* C2 witness: a KeyError raised although another key of the table is mapped
C2_Witness ==
    /\ last_call = "pivot_with_labels"
    /\ result.err = "KeyError"
    /\ PresentKeys \cap DOMAIN mapping_label # {}
    /\ ExtraKey \in DOMAIN mapping_label

\* C3: when two distinct group keys of the table map to the same label,
\* pivot_with_labels fails instead of returning a table.
C3_NonInjectiveMapFails ==
    (last_call = "pivot_with_labels" /\ ~InjectiveOnPresent)
        => result.err \notin {"none", "unset"}

\* the normalized load of row i: combined load * freq / (M_g * n_g)
ExpectedNormalizedLoad(i) ==
    LET g    == data_frame[CPUS][i]
        rows == {j \in DOMAIN data_frame[CPUS] : data_frame[CPUS][j] = g}
        M_g  == CHOOSE m \in {data_frame[FREQ][j].num : j \in rows} :
                    \A j \in rows : data_frame[FREQ][j].num <= m
        n_g  == PopCount(DigitsValue(StrRemove(g, ",")))
    IN  Norm((Number(LOAD0, i) + Number(LOAD1, i)) * data_frame[FREQ][i].num,
             M_g * n_g)

\* C4: for every label map whose keys include the group keys of the table
\* (and maybe keys without a row), get_normalized_load_data returns the
\* pivot of the column combinedLoad * freq / (M_g * n_g), M_g the largest
\* freq of the rows of the group and n_g the number of cpus of its mask.
C4_NormalizedLoadPerGroup ==
    (/\ last_call = "get_normalized_load_data"
     /\ Covered
     /\ InjectiveOnPresent
     /\ LOAD0 \in DOMAIN data_frame)
        => result = Returned(ExpectedPivot(data_frame[CPUS],
                        [i \in DOMAIN data_frame[CPUS] |->
                            ExpectedNormalizedLoad(i)]))

\* C5: cpus_to_mask(S) has bit i set exactly when i is in S (0 for the
\* empty S), and mask_to_cpus of it lists the elements of S in ascending
\* order without duplicates.
C5_CpuListRoundTrip ==
    /\ cpu_mask.err = "none" =>
           /\ \A i \in 0..(MaxCpu + 1) :
                  BitSet(cpu_mask.val, i) <=> i \in Range(cpus)
           /\ cpu_mask.val < Pow2(MaxCpu + 1)
           /\ cpus = <<>> => cpu_mask.val = 0
    /\ cpu_list.err = "none" =>
           /\ Range(cpu_list.val) = Range(cpus)
           /\ \A p, q \in DOMAIN cpu_list.val :
                  p < q => cpu_list.val[p] < cpu_list.val[q]

\* C5 witness: the round trip of a list that is neither sorted nor free of
\* duplicates
C5_Witness ==
    /\ cpu_list.err = "none"
    /\ Len(cpus) = 3
    /\ cpus[1] > cpus[2]
    /\ cpus[2] = cpus[3]
    /\ Len(cpu_list.val) = 2

C6_CountIsPopCount ==
    (mask_int # Unset /\ mask_cnt # Unset)
        => /\ (mask_cnt.err = "none") <=> (mask_int.err = "none")
           /\ IsHexMask(mask) =>
                  /\ mask_int.err = "none"
                  /\ mask_cnt.err = "none"
                  /\ mask_cnt.val = PopCount(mask_int.val)

C6_CommaEdit ==
    (mask' # mask /\ mask_int # Unset /\ mask_cnt # Unset)
        => (mask_int' = mask_int /\ mask_cnt' = mask_cnt)

\* C6: num_cpus_in_mask(text) is the number of set bits of
\* sanitize_mask(text) for every textual hexadecimal mask (the two fail
\* together on any other text), and inserting or removing a comma changes
\* neither result.
C6_CountMatchesSanitize == [](C6_CountIsPopCount) /\ [][C6_CommaEdit]_vars

\* C6 witness: the mask "f,0", reached with both results: 0xf0 and 4 cpus
C6_Witness ==
    /\ mask = <<"f", ",", "0">>
    /\ mask_int = Returned(240)
    /\ mask_cnt = Returned(4)

\* C7: sanitize_mask returns the base-16 value of the text without its
\* commas when that remainder is made of hexadecimal digits only, raises a
\* format error for every other text, and never returns a negative integer.
C7_SanitizeRejectsNonHex ==
    mask_int # Unset =>
        LET rest  == StrRemove(mask, ",")
            isHex == rest # <<>> /\ \A i \in DOMAIN rest : rest[i] \in HexDigits
        IN  /\ isHex => mask_int = Returned(DigitsValue(rest))
            /\ ~isHex => mask_int.err = "ValueError"
            /\ mask_int.err = "none" => mask_int.val >= 0

\* C8: no query changes a cell of the caller's event table, whether the
\* call returns or raises.
C8_QueriesLeaveTableUntouched == [][data_frame' = data_frame]_vars

\* C8 witness: get_normalized_load_data has returned on a table of two load
\* columns and two rows, after adding, multiplying and dividing in place
C8_Witness ==
    /\ last_call = "get_normalized_load_data"
    /\ result.err = "none"
    /\ LOAD1 \in DOMAIN data_frame
    /\ Len(data_frame[CPUS]) >= 2

\* C9: get_all_freqs of CpuInPower and of CpuOutPower is the label pivot of
\* the freq column with every value divided by 1,000; the one of
\* DevfreqInPower and of DevfreqOutPower is the freq column divided by
\* 1,000,000; missing cells stay missing.
C9_FrequenciesInMHz ==
    last_call = "get_all_freqs" =>
        IF self \in CpuClasses
        THEN \E order \in Orders(PresentKeys) :
                 LET pivot == pivot_with_labels(data_frame, FREQ, CPUS,
                                                mapping_label, order)
                 IN  IF pivot.err # "none" THEN result = pivot
                     ELSE /\ result.err = "none"
                          /\ result.val.index = pivot.val.index
                          /\ DOMAIN result.val.col = DOMAIN pivot.val.col
                          /\ \A l \in DOMAIN pivot.val.col :
                             \A p \in DOMAIN pivot.val.index :
                                 IsScaled(result.val.col[l][p],
                                          pivot.val.col[l][p], 1000)
        ELSE /\ result.err = "none"
             /\ result.val.index = [i \in DOMAIN data_frame[FREQ] |-> i]
             /\ DOMAIN result.val.col = {FREQ}
             /\ \A p \in DOMAIN data_frame[FREQ] :
                    IsScaled(result.val.col[FREQ][p], data_frame[FREQ][p],
                             1000000)

\* C9 witness: a CPU frequency table with a missing cell and a cell of
\* 1 MHz that comes from the native value 1,000
C9_Witness ==
    /\ last_call = "get_all_freqs"
    /\ self = "CpuInPower"
    /\ result.err = "none"
    /\ \E l \in DOMAIN result.val.col :
           /\ result.val.col[l][1] = NaN
           /\ result.val.col[l][2] = Val(1)
           /\ data_frame[FREQ][2] = Val(1000)

\* C10: _get_load_series returns, row by row, the sum of the columns whose
\* name begins with "load", each counted once and no other column counted,
\* and raises when the table has no such column.
C10_LoadSeriesSumsLoadColumns ==
    last_call = "_get_load_series" =>
        IF {LOAD0, LOAD1} \cap DOMAIN data_frame = {}
        THEN result.err = "IndexError" /\ "val" \notin DOMAIN result
        ELSE /\ result.err = "none"
             /\ Len(result.val) = Len(data_frame[CPUS])
             /\ \A i \in DOMAIN result.val :
                    result.val[i] = Val(Number(LOAD0, i) + Number(LOAD1, i))

\* C10 witness: the sum of two load columns over two rows
C10_Witness ==
    /\ last_call = "_get_load_series"
    /\ result.err = "none"
    /\ {LOAD0, LOAD1} \subseteq DOMAIN data_frame
    /\ Len(result.val) = 2
    /\ result.val[1] # result.val[2]

====
